---- MODULE Spec2Model ----
(***************************************************************************)
(* ut_disclosures.py: extraction of one registration page into an Entity   *)
(* with nested Persons (EntityMetadata.process_page), the registration     *)
(* writers that call it (_write_registration_json, get_registration,       *)
(* get_all_registrations) and the disclosure download (get_disclosures).   *)
(*                                                                         *)
(* Text that the code inspects character by character (section legends,    *)
(* which are stripped and prefix-matched, and label tails, which are       *)
(* stripped) is a sequence of one-character strings.  Text that the code   *)
(* only looks up or copies (labels, headings, field names) is a string.    *)
(***************************************************************************)
EXTENDS Integers, Sequences, FiniteSets, TLC

(* ---------------------------- bounds ----------------------------------- *)
\* fieldsets per page and labels per fieldset, for a page get_registration reads
MaxSections == 2
MaxLabels == 2
\* rows of data/ut_entities.csv, and the same two limits for the pages that
\* get_all_registrations reads
NumRows == 2
BulkSections == 1
BulkLabels == 1

(* ------------------------- text primitives ----------------------------- *)
Whitespace == {" ", "\t", "\n"}

RECURSIVE LStrip(_)
LStrip(s) ==
    IF s # <<>> /\ Head(s) \in Whitespace THEN LStrip(Tail(s)) ELSE s

RECURSIVE RStrip(_)
RStrip(s) ==
    IF s # <<>> /\ s[Len(s)] \in Whitespace
    THEN RStrip(SubSeq(s, 1, Len(s) - 1)) ELSE s

\* str.strip()
Strip(s) == RStrip(LStrip(s))

\* str.startswith(p)
StartsWith(s, p) == Len(s) >= Len(p) /\ SubSeq(s, 1, Len(p)) = p

\* the value None (a label without tail text, an absent element)
None == <<"None">>

(* --------------------------- data models ------------------------------- *)
\* @dataclass Person: "first" has no default, the others default to ""
PersonFields ==
    {"first", "middle", "last", "suffix", "title", "address1", "address2",
     "city", "state", "zipcode", "phone", "email", "occupation", "office",
     "district_number", "party"}

PersonRequired == {"first"}

\* @dataclass Entity: the declared fields, which are what asdict() emits
EntityIdFields == {"folder_id", "entity_id", "source"}

EntityTextFields ==
    {"name", "phone", "address1", "address2", "city", "state", "zipcode",
     "aka", "date_created", "ballot_proposition", "ballot_position",
     "affiliated_organization"}

EntityFields ==
    EntityIdFields \cup {"type"} \cup EntityTextFields \cup {"associated_people"}

\* Entity(folder_id=..., source=..., entity_id=...): every other field default
NewEntity(folder_id, source, entity_id) ==
    [f \in EntityFields |->
        CASE f = "folder_id" -> folder_id
          [] f = "source" -> source
          [] f = "entity_id" -> entity_id
          [] f = "type" -> ""
          [] OTHER -> <<>>]

(* ------------------------ EntityMetadata tables ------------------------ *)
ENTITY_DATA_MAPPING ==
    [l \in {"Name of Corporation", "Name", "Name of Political Party"} |-> "name"]
    @@ ("County" :> "county")
    @@ ("Telephone Number" :> "phone")
    @@ ("Street Address" :> "address1")
    @@ ("Suite/PO Box" :> "address2")
    @@ ("City" :> "city")
    @@ ("State" :> "state")
    @@ ("Zip" :> "zipcode")
    @@ ("Also known as" :> "aka")
    @@ ("Date Created" :> "date_created")
    @@ ("First" :> "first")
    @@ ("Middle" :> "middle")
    @@ ("Last" :> "last")
    @@ ("Suffix" :> "suffix")
    @@ ("Title" :> "title")
    @@ ("Email" :> "email")
    @@ ("Occupation" :> "occupation")
    @@ ("Business Address" :> "address1")
    @@ ("Ballot Proposition" :> "ballot_proposition")
    @@ ("Ballot Position" :> "ballot_position")
    @@ [l \in {"Name of organization, individual, corporation, association, unit of government, or union that the PIC Represents",
               "Name of organization, individual, corporation, association, unit of government, or union that the PAC Represents",
               "Name of organization affiliated with the PAC",
               "Name of organization affiliated with the PIC"} |-> "first"]
    @@ ("Office" :> "office")
    @@ ("Party" :> "party")
    @@ ("District #" :> "district_number")
    @@ ("County of Election" :> "county")
    @@ ("Organization" :> "affiliated_organization")
    @@ ("Elected or appointed position that the lobbyist holds in state or local government (if any)" :> "office")
    @@ ("CreateDate" :> "date_created")
    @@ ("Types of expenditures for which the lobbyist will be reimbursed" :> "reimbursement_types")
    @@ ("Principal's Name" :> "principal_name")
    @@ ("General Purposes, Interests, and Nature of the Principal" :> "principal_interests")

type_mapping ==
    ("Political Issues Commitee Statement of Organization" :> "Political Issues Committee")
    @@ ("Financial Disclosures Registration for Corporation" :> "Corporation")
    @@ ("Political Action Committee Statement of Organization" :> "Political Action Committee")
    @@ ("Candidates & Office Holders Statement of Organization" :> "Candidates & Office Holders")
    @@ ("Financial Disclosures Registration for Political Party" :> "Political Party")
    @@ ("Financial Disclosures Registration for Independent Expenditures" :> "Independent Expenditures")
    @@ ("Financial Disclosures Registration for Electioneering" :> "Electioneering")
    @@ ("Financial Disclosures Registration for Lobbyist" :> "Lobbyist")

\* self.type_mapping[h1]: the mapped type, or KeyError
LookupTypeOrDefault(h) ==
    [raises |-> FALSE,
     type |-> IF h \in DOMAIN type_mapping THEN type_mapping[h] ELSE ""]

LookupType(h) ==
    IF h \in DOMAIN type_mapping
    THEN [raises |-> FALSE, type |-> type_mapping[h]]
    ELSE [raises |-> TRUE, type |-> ""]

\* the titles of the `legend in (...)` test
EntityLegends ==
    {<<"C","o","r","p","o","r","a","t","e"," ","I","n","f","o","r","m","a","t","i","o","n">>,
     <<"P","A","C"," ","I","n","f","o","r","m","a","t","i","o","n">>,
     <<"P","I","C"," ","I","n","f","o","r","m","a","t","i","o","n">>,
     <<"P","a","r","t","y"," ","I","n","f","o","r","m","a","t","i","o","n">>,
     <<"C","a","n","d","i","d","a","t","e"," ","I","n","f","o","r","m","a","t","i","o","n">>,
     <<"I","n","d","e","p","e","n","d","e","n","t"," ","E","x","p","e","n","d","i","t","u","r","e","s"," ","I","n","f","o","r","m","a","t","i","o","n">>,
     <<"E","l","e","c","t","i","o","n","e","e","r"," ","I","n","f","o","r","m","a","t","i","o","n">>,
     <<"L","o","b","b","y","i","s","t"," ","I","n","f","o","r","m","a","t","i","o","n">>,
     <<"B","u","s","i","n","e","s","s"," ","I","n","f","o","r","m","a","t","i","o","n">>,
     <<"P","a","y","m","e","n","t"," ","I","n","f","o","r","m","a","t","i","o","n">>,
     <<"P","r","i","n","c","i","p","a","l","s"," ","(","C","l","i","e","n","t","s",")"," ","f","o","r"," ","W","h","i","c","h"," ","t","h","e"," ","L","o","b","b","y","i","s","t"," ","W","o","r","k","s"," ","o","r"," ","i","s"," ","H","i","r","e","d"," ","a","s"," ","a","n"," ","I","n","d","e","p","e","n","d","e","n","t"," ","C","o","n","t","r","a","c","t","o","r">>}

\* the two legend.startswith(...) prefixes
PersonalPrefixes ==
    {<<"I","n","f","o","r","m","a","t","i","o","n"," ","a","b","o","u","t">>, <<"P","e","r","s","o","n","a","l"," ","C","a","m","p","a","i","g","n"," ","C","o","m","m","i","t","t","e","e">>}

HasAboutPrefix(legend) ==
    StartsWith(legend, <<"I","n","f","o","r","m","a","t","i","o","n"," ","a","b","o","u","t">>)

HasPersonalPrefix(legend) ==
    \E p \in PersonalPrefixes : StartsWith(legend, p)

\* the if / elif / else over the stripped legend
Classify(legend) ==
    IF legend \in EntityLegends THEN "EntityLevel"
    ELSE IF HasPersonalPrefix(legend) THEN "PersonLevel"
    ELSE "Unknown"

StoreFieldKeepFirst(d, f, v) ==
    [k \in DOMAIN d \cup {f} |-> IF k \in DOMAIN d THEN d[k] ELSE v]

\* data[field] = value: a dict assignment replaces the value of a present key
StoreField(d, f, v) ==
    [k \in DOMAIN d \cup {f} |-> IF k = f THEN v ELSE d[k]]

\* for k, v in data.items(): setattr(entity, k, v); an attribute the
\* dataclass does not declare is created on the instance
ApplyData(e, d) ==
    [k \in DOMAIN e \cup DOMAIN d |-> IF k \in DOMAIN d THEN d[k] ELSE e[k]]

\* Person(**data) raises TypeError on a keyword that is no field of Person
\* and on a missing field without default
CanBuildPerson(d) ==
    DOMAIN d \subseteq PersonFields /\ PersonRequired \subseteq DOMAIN d

\* Person(**data), the fields not given taking their default ""
MakePerson(d) ==
    [f \in PersonFields |-> IF f \in DOMAIN d THEN d[f] ELSE <<>>]

\* dataclasses.asdict: the declared fields only, nested dataclasses as dicts
AsDict(e) ==
    [f \in EntityFields |-> e[f]]

\* url.split("/")[-1]
LastSegment(url) == url[Len(url)]

\* EntityPageDetails.get_source_from_input
DetailsUrl(entity_id) ==
    <<"https:", "", "disclosures.utah.gov", "Registration", "EntityDetails", entity_id>>

(* ------------------------------ inputs --------------------------------- *)
\* "div.dis-cell label" elements: the label text and the tail text after it
Items ==
    {[label |-> "Street Address", tail |-> <<" ","1"," ","M","a","i","n"," ","S","t"," ">>],
     [label |-> "Business Address", tail |-> <<"B","o","x"," ","2">>],
     [label |-> "First", tail |-> <<"J","a","n","e">>],
     [label |-> "Principal's Name", tail |-> <<"A","c","m","e">>],
     [label |-> "Fax", tail |-> <<"5","5","5">>],
     [label |-> "Name", tail |-> None]}

\* section titles: the entity-level ones and others around the two prefixes
Titles ==
    EntityLegends
    \cup {<<"P","A","C"," ","I","n","f","o","r","m","a","t","i","o","n"," ","2">>,
          <<"C","o","r","p","o","r","a","t","e"," ","i","n","f","o","r","m","a","t","i","o","n">>,
          <<"I","n","f","o","r","m","a","t","i","o","n"," ","a","b","o","u","t"," ","T","r","e","a","s","u","r","e","r">>,
          <<"I","n","f","o","r","m","a","t","i","o","n"," ","a","b","o","u","t">>,
          <<"I","n","f","o","r","m","a","t","i","o","n"," ","a","b","o","u","t","n","e","s","s">>,
          <<"P","e","r","s","o","n","a","l"," ","C","a","m","p","a","i","g","n"," ","C","o","m","m","i","t","t","e","e">>,
          <<"P","e","r","s","o","n","a","l"," ","C","a","m","p","a","i","g","n"," ","C","o","m","m","i","t","t","e","e"," ","M","e","m","b","e","r","s">>,
          <<"i","n","f","o","r","m","a","t","i","o","n"," ","a","b","o","u","t"," ","T","r","e","a","s","u","r","e","r">>,
          <<"A","b","o","u","t"," ","P","e","r","s","o","n","a","l"," ","C","a","m","p","a","i","g","n"," ","C","o","m","m","i","t","t","e","e">>,
          <<"I","n","f","o","r","m","a","t","i","o","n">>,
          <<"M","i","s","c"," ","N","o","t","e","s">>,
          <<>>}

\* white space around a title in the page source
Paddings == {<<>>, <<" ">>, <<"\n","\t">>}

\* text of the fieldset's legend element, None when the fieldset has none
LegendInputs ==
    Titles
    \cup {<<" ","P","A","C"," ","I","n","f","o","r","m","a","t","i","o","n","\n">>,
          <<"\t","P","e","r","s","o","n","a","l"," ","C","a","m","p","a","i","g","n"," ","C","o","m","m","i","t","t","e","e"," ">>,
          <<" "," ">>,
          None}

\* text of the page's h1
HeadingInputs ==
    {"Political Action Committee Statement of Organization",
     "Financial Disclosures Registration for Lobbyist",
     "Financial Disclosures Registration for Lobbyist ",
     "Statement of Organization"}

\* entity_id column of data/ut_entities.csv, one id per row
RowId(i) == ToString(1409776 + i)

Rows == 1 .. NumRows

(* ------------------------------- state --------------------------------- *)
VARIABLES
    cmd,        \* the cli command that runs
    row,        \* get_all_registrations: index of the csv row being handled
    wpc,        \* position in get_all_registrations / _write_registration_json
    files,      \* data/ut_registration_<id>.json per row: absent, empty, json
    out,        \* the line printed last for each row
    written,    \* the dict json.dump is writing
    unslept,    \* row of the last request made with no time.sleep since, 0 if none
    pc,         \* position in EntityMetadata.process_page
    h1,         \* text of the page heading
    entity,     \* the Entity under construction
    data,       \* the dict collected for the current fieldset
    field,      \* the local variable `field` of process_page
    nsec,       \* fieldsets entered so far
    nlab,       \* labels read in the current fieldset
    cls,        \* the branch the fieldset's legend took
    exc,        \* the exception raised last
    printed,    \* what process_page printed last
    section,    \* history: the label elements of the current fieldset, in order
    supplied,   \* history: per field, the value the EntityLevel sections gave last
    personSections, \* history: number of fieldsets that took the person branch
    titleCore,  \* a legend classified on its own: the title,
    title,      \* the element text around it,
    titleClass, \* and the branch it takes
    dpc,        \* position in get_disclosures
    resp,       \* the response _fetch_disclosures got
    rows,       \* the rows _fetch_disclosures returned, not yet written
    csvfile,    \* the lines of data/ut_disclosures_<id>_<year>.csv, or Absent
    n           \* get_disclosures' count of rows written

pageVars ==
    <<pc, h1, entity, data, field, nsec, nlab, cls, exc, printed,
      section, supplied, personSections>>

runVars == <<cmd, row, wpc, files, out, written, unslept>>

\* the pages explored: up to SectionLimit fieldsets of up to LabelLimit labels
SectionLimit == IF cmd = "get_all_registrations" THEN BulkSections ELSE MaxSections

LabelLimit == IF cmd = "get_all_registrations" THEN BulkLabels ELSE MaxLabels

legendVars == <<titleCore, title, titleClass>>

discVars == <<dpc, resp, rows, csvfile, n>>

otherVars == <<legendVars, discVars>>

vars == <<runVars, pageVars, legendVars, discVars>>

Unbound == "<unbound>"

EmptyDict == [k \in {} |-> <<>>]

\* no page is being processed
PageIdle ==
    /\ pc = "idle"
    /\ h1 = ""
    /\ entity = EmptyDict
    /\ data = EmptyDict
    /\ field = Unbound
    /\ nsec = 0
    /\ nlab = 0
    /\ cls = ""
    /\ exc = ""
    /\ printed = <<"", "">>
    /\ section = <<>>
    /\ supplied = EmptyDict
    /\ personSections = 0

PageReset ==
    /\ pc' = "idle"
    /\ h1' = ""
    /\ entity' = EmptyDict
    /\ data' = EmptyDict
    /\ field' = Unbound
    /\ nsec' = 0
    /\ nlab' = 0
    /\ cls' = ""
    /\ exc' = ""
    /\ printed' = <<"", "">>
    /\ section' = <<>>
    /\ supplied' = EmptyDict
    /\ personSections' = 0

Absent == <<"absent">>

NoResponse == [status |-> 0, text |-> <<>>]

LegendIdle == titleCore = <<>> /\ title = <<>> /\ titleClass = ""

DiscIdle ==
    /\ dpc = "idle"
    /\ resp = NoResponse
    /\ rows = <<>>
    /\ csvfile = Absent
    /\ n = 0

\* get_all_registrations starts with the data directory as earlier runs left
\* it: a registration file is absent or holds the json of an earlier run.
\* get_registration, which never looks at the directory, starts with it empty;
\* its entity_id argument is the id of row 1.
Init ==
    /\ cmd \in {"get_registration", "get_all_registrations", "get_disclosures"}
    /\ row = 1
    /\ wpc = "main"
    /\ files \in [Rows -> {"absent", "json"}]
    /\ cmd # "get_all_registrations" => \A r \in Rows : files[r] = "absent"
    /\ out = [r \in Rows |-> <<"", "">>]
    /\ written = EmptyDict
    /\ unslept = 0
    /\ PageIdle
    /\ LegendIdle
    /\ DiscIdle

(* ---------------- EntityMetadata.process_page, lines 257-313 ----------- *)
\* lines 259-263: the Entity shell, built when the page has been fetched
EnterPage ==
    /\ pc' = "start"
    /\ entity' = NewEntity(RowId(row), DetailsUrl(RowId(row)),
                           LastSegment(DetailsUrl(RowId(row))))
    /\ UNCHANGED <<h1, data, field, nsec, nlab, cls, exc, printed,
                   section, supplied, personSections>>

\* lines 266-267: the heading lookup happens outside both try blocks, so a
\* heading that is no key of type_mapping raises KeyError out of process_page
ResolveType ==
    /\ wpc = "page" /\ pc = "start"
    /\ \E h \in HeadingInputs :
        /\ h1' = h
        /\ IF ~LookupType(h).raises
           THEN /\ entity' = [entity EXCEPT !["type"] = LookupType(h).type]
                /\ pc' = "fieldsets"
                /\ exc' = exc
           ELSE /\ entity' = entity
                /\ pc' = "raised"
                /\ exc' = "KeyError"
    /\ UNCHANGED <<data, field, nsec, nlab, cls, printed,
                   section, supplied, personSections>>
    /\ UNCHANGED <<runVars, otherVars>>

\* lines 269-272: the next fieldset of the page, data = {}
BeginFieldset ==
    /\ wpc = "page" /\ pc = "fieldsets"
    /\ nsec < SectionLimit
    /\ nsec' = nsec + 1
    /\ nlab' = 0
    /\ data' = EmptyDict
    /\ section' = <<>>
    /\ cls' = ""
    /\ exc' = ""
    /\ printed' = <<"", "">>
    /\ pc' = "labels"
    /\ UNCHANGED <<h1, entity, field, supplied, personSections>>
    /\ UNCHANGED <<runVars, otherVars>>

\* lines 273-278: one label of the fieldset.  The f-string of line 275 reads
\* the local `field`, which only line 277 assigns: before the first mapped
\* label of the page it is unbound and the read raises UnboundLocalError.
\* Both that and item.tail.strip() on a label without tail are raised
\* outside the inner try, so the outer except of line 312 ends the page.
ReadLabel ==
    /\ wpc = "page" /\ pc = "labels"
    /\ nlab < LabelLimit
    /\ \E it \in Items :
        /\ section' = Append(section, it)
        /\ nlab' = nlab + 1
        /\ IF it.label \notin DOMAIN ENTITY_DATA_MAPPING
           THEN IF field = Unbound
                THEN /\ pc' = "error"
                     /\ exc' = "UnboundLocalError"
                     /\ printed' = <<"error", "UnboundLocalError">>
                     /\ UNCHANGED <<field, data>>
                ELSE /\ printed' = <<"new field", field>>
                     /\ UNCHANGED <<pc, exc, field, data>>
           ELSE /\ field' = ENTITY_DATA_MAPPING[it.label]
                /\ IF it.tail = None
                   THEN /\ pc' = "error"
                        /\ exc' = "AttributeError"
                        /\ printed' = <<"error", "AttributeError">>
                        /\ data' = data
                   ELSE /\ data' = StoreField(data, field', Strip(it.tail))
                        /\ UNCHANGED <<pc, exc, printed>>
    /\ UNCHANGED <<h1, entity, nsec, cls, supplied, personSections>>
    /\ UNCHANGED <<runVars, otherVars>>

\* history: the value the fieldset's labels give field f, the tail of the last
\* label in document order that maps to f
LabelsFor(sec, f) ==
    {i \in 1 .. Len(sec) :
        /\ sec[i].label \in DOMAIN ENTITY_DATA_MAPPING
        /\ ENTITY_DATA_MAPPING[sec[i].label] = f}

LastLabelFor(sec, f) ==
    CHOOSE i \in LabelsFor(sec, f) : \A j \in LabelsFor(sec, f) : j <= i

SectionFields(sec) ==
    {ENTITY_DATA_MAPPING[sec[i].label] :
        i \in {j \in 1 .. Len(sec) : sec[j].label \in DOMAIN ENTITY_DATA_MAPPING}}

SuppliedAfter(sup, sec) ==
    [f \in DOMAIN sup \cup SectionFields(sec) |->
        IF f \in SectionFields(sec)
        THEN Strip(sec[LastLabelFor(sec, f)].tail)
        ELSE sup[f]]

AttachUnknownFallsThrough(e, d, c) ==
    CASE c = "NoLegend" ->
           [entity |-> e, exc |-> "IndexError", printed |-> <<"section", "IndexError">>]
      [] c = "PersonLevel" /\ CanBuildPerson(d) ->
           [entity |-> [e EXCEPT !["associated_people"] = Append(@, MakePerson(d))],
            exc |-> "", printed |-> <<"", "">>]
      [] c = "PersonLevel" /\ ~CanBuildPerson(d) ->
           [entity |-> e, exc |-> "TypeError", printed |-> <<"section", "TypeError">>]
      [] OTHER ->
           [entity |-> ApplyData(e, d), exc |-> "", printed |-> <<"", "">>]

\* lines 281-309, the body of the inner try for a fieldset whose legend took
\* branch c: the entity afterwards, the exception the inner except caught and
\* what it printed
AttachFieldset(e, d, c) ==
    CASE c = "NoLegend" ->
           [entity |-> e, exc |-> "IndexError", printed |-> <<"section", "IndexError">>]
      [] c = "EntityLevel" ->
           [entity |-> ApplyData(e, d), exc |-> "", printed |-> <<"", "">>]
      [] c = "PersonLevel" /\ CanBuildPerson(d) ->
           [entity |-> [e EXCEPT !["associated_people"] = Append(@, MakePerson(d))],
            exc |-> "", printed |-> <<"", "">>]
      [] c = "PersonLevel" /\ ~CanBuildPerson(d) ->
           [entity |-> e, exc |-> "TypeError", printed |-> <<"section", "TypeError">>]
      [] OTHER ->
           [entity |-> e, exc |-> "ValueError", printed |-> <<"section", "unknown legend">>]

\* line 284: the legend element's stripped text, classified; a fieldset with
\* no legend element raises IndexError before any branch
LegendBranch(lg) ==
    IF lg = None THEN "NoLegend" ELSE Classify(Strip(lg))

\* lines 281-309: the fieldset is attached under the inner try.  Everything
\* raised here (no legend element, Person(**data) TypeError, the ValueError of
\* the else branch) is caught by line 307 and the loop goes on.
Attach ==
    /\ wpc = "page" /\ pc = "labels"
    /\ \E lg \in LegendInputs :
        /\ cls' = LegendBranch(lg)
        /\ entity' = AttachFieldset(entity, data, cls').entity
        /\ exc' = AttachFieldset(entity, data, cls').exc
        /\ printed' = AttachFieldset(entity, data, cls').printed
        /\ supplied' = IF cls' = "EntityLevel"
                       THEN SuppliedAfter(supplied, section) ELSE supplied
        /\ personSections' = IF cls' = "PersonLevel"
                             THEN personSections + 1 ELSE personSections
    /\ pc' = "fieldsets"
    /\ UNCHANGED <<h1, data, field, nsec, nlab, section>>
    /\ UNCHANGED <<runVars, otherVars>>

\* line 311: return entity, once the fieldsets are exhausted; the locals of
\* process_page end with the call
ReturnEntity ==
    /\ wpc = "page" /\ pc = "fieldsets"
    /\ pc' = "returned"
    /\ data' = EmptyDict
    /\ field' = Unbound
    /\ nlab' = 0
    /\ cls' = ""
    /\ exc' = ""
    /\ printed' = <<"", "">>
    /\ section' = <<>>
    /\ UNCHANGED <<h1, entity, nsec, supplied, personSections>>
    /\ UNCHANGED <<runVars, otherVars>>

(* --- _write_registration_json, get_registration, get_all_registrations - *)
\* exception e leaves _write_registration_json: get_all_registrations catches
\* it, prints it (lines 432-433) and takes the next row; get_registration
\* does not, and the command ends with the traceback
Raise(e) ==
    /\ out' = [out EXCEPT ![row] = <<"failed", e>>]
    /\ IF cmd = "get_all_registrations"
       THEN row' = row + 1 /\ wpc' = "loop"
       ELSE row' = row /\ wpc' = "crashed"
    /\ PageReset

\* lines 417 and 399: get_registration calls the writer with
\* skip_if_exists=False, so the file's existence is not looked at
GetRegistration ==
    /\ cmd = "get_registration" /\ wpc = "main"
    /\ wpc' = "details"
    /\ UNCHANGED <<cmd, row, files, out, written, unslept>>
    /\ UNCHANGED pageVars
    /\ UNCHANGED otherVars

\* lines 427-428: open the csv and start iterating its rows
GetAllRegistrations ==
    /\ cmd = "get_all_registrations" /\ wpc = "main"
    /\ wpc' = "loop"
    /\ UNCHANGED <<cmd, row, files, out, written, unslept>>
    /\ UNCHANGED pageVars
    /\ UNCHANGED otherVars

\* lines 428-431 and 399-400: the next csv row; with skip_if_exists an
\* existing file is reported and nothing is fetched
NextRow ==
    /\ wpc = "loop" /\ row \in Rows
    /\ IF files[row] # "absent"
       THEN /\ out' = [out EXCEPT ![row] = <<"exists", "">>]
            /\ row' = row + 1
            /\ wpc' = wpc
       ELSE /\ wpc' = "details"
            /\ UNCHANGED <<out, row>>
    /\ UNCHANGED <<cmd, files, written, unslept>>
    /\ UNCHANGED pageVars
    /\ UNCHANGED otherVars

\* line 402: do_scrape requests the EntityPageDetails source; a failed
\* request raises out of do_scrape
FetchDetails ==
    /\ wpc = "details"
    /\ unslept' = row
    /\ \E ok \in BOOLEAN :
        IF ok
        THEN /\ wpc' = "metadata"
             /\ UNCHANGED <<row, out>>
             /\ UNCHANGED pageVars
        ELSE Raise("HTTPError")
    /\ UNCHANGED <<cmd, files, written>>
    /\ UNCHANGED otherVars

\* lines 194-197: EntityPageDetails.process_page returns an EntityMetadata
\* page for the same url, which do_scrape requests in turn
FetchMetadata ==
    /\ wpc = "metadata"
    /\ unslept' = row
    /\ \E ok \in BOOLEAN :
        IF ok
        THEN /\ wpc' = "page"
             /\ EnterPage
             /\ UNCHANGED <<row, out>>
        ELSE Raise("HTTPError")
    /\ UNCHANGED <<cmd, files, written>>
    /\ UNCHANGED otherVars

\* an exception out of process_page propagates through list(do_scrape())
ScrapeRaises ==
    /\ wpc = "page" /\ pc = "raised"
    /\ Raise(exc)
    /\ UNCHANGED <<cmd, files, written, unslept>>
    /\ UNCHANGED otherVars

\* line 403: open(filename, "w") creates or truncates the file before
\* anything is known about item[0]
OpenFile ==
    /\ wpc = "page" /\ pc \in {"returned", "error"}
    /\ files' = [files EXCEPT ![row] = "empty"]
    /\ wpc' = "dump"
    /\ UNCHANGED <<cmd, row, out, written, unslept>>
    /\ UNCHANGED pageVars
    /\ UNCHANGED otherVars

\* line 404: json.dump(asdict(item[0]), f).  process_page returned None on
\* its error branch, do_scrape yields what process_page returns, and
\* asdict(None) raises TypeError; the with block closes the file it has
\* just truncated
DumpJson ==
    /\ wpc = "dump"
    /\ IF pc = "error"
       THEN /\ Raise("TypeError")
            /\ UNCHANGED <<files, written>>
       ELSE /\ files' = [files EXCEPT ![row] = "json"]
            /\ written' = AsDict(entity)
            /\ wpc' = "sleep"
            /\ UNCHANGED <<row, out>>
            /\ UNCHANGED pageVars
    /\ UNCHANGED <<cmd, unslept>>
    /\ UNCHANGED otherVars

\* lines 405-406: print, time.sleep(1), and the writer returns
Sleep ==
    /\ wpc = "sleep"
    /\ out' = [out EXCEPT ![row] = <<"wrote", "">>]
    /\ written' = EmptyDict
    /\ unslept' = 0
    /\ IF cmd = "get_all_registrations"
       THEN row' = row + 1 /\ wpc' = "loop"
       ELSE row' = row /\ wpc' = "done"
    /\ PageReset
    /\ UNCHANGED <<cmd, files>>
    /\ UNCHANGED otherVars

(* --------------- _fetch_disclosures and get_disclosures ---------------- *)
\* A response text is the sequence of its lines and a line the sequence of
\* its comma-separated cells, which is what csv.reader makes of it.
EMPTY_MSG ==
    <<<<"There are no recorded transactions for this entity in this year.">>>>

\* fieldnames of get_disclosures, lines 448-467
fieldnames ==
    <<"PCC", "CORP", "REPORT", "TRAN_ID", "TRAN_TYPE", "TRAN_DATE", "TRAN_AMT",
      "INKIND", "LOAN", "AMENDS", "NAME", "PURPOSE", "ADDRESS1", "ADDRESS2",
      "CITY", "STATE", "ZIP", "INKIND_COMMENTS">>

\* the value None in a csv row dict
NoCell == "<None>"

\* one row of csv.DictReader: dict(zip(fieldnames, row)), the fields past the
\* end of a short row set to restval None
RowDict(names, cells) ==
    [k \in {names[i] : i \in 1 .. Len(names)} |->
        LET last == CHOOSE i \in 1 .. Len(names) :
                        /\ names[i] = k
                        /\ \A j \in 1 .. Len(names) : names[j] = k => j <= i
        IN IF last <= Len(cells) THEN cells[last] ELSE NoCell]

IsRow(line) == line # <<>>

\* list(csv.DictReader(io.StringIO(text))): the first line gives the field
\* names, every later line that is not blank gives a row
DictReaderRows(text) ==
    IF text = <<>> THEN <<>>
    ELSE LET lines == SelectSeq(Tail(text), IsRow)
         IN [i \in 1 .. Len(lines) |-> RowDict(text[1], lines[i])]

\* lines 67-71: the status of the response is never looked at
FetchedRows(r) ==
    IF r.text = EMPTY_MSG THEN <<>> ELSE DictReaderRows(r.text)

\* row.get(k)
Get(d, k) == IF k \in DOMAIN d THEN d[k] ELSE NoCell

\* line 474: writer.writerow({k: row.get(k) for k in fieldnames}); the csv
\* writer writes None as the empty string
WrittenLine(d) ==
    [i \in 1 .. Len(fieldnames) |->
        IF Get(d, fieldnames[i]) = NoCell THEN "" ELSE Get(d, fieldnames[i])]

MaxCsvRows == 2

Transactions ==
    {<<"", "", "Year End", "T1", "Contribution", "1/2/2020", "100.00", "", "",
       "", "Jane Doe", "", "1 Main St", "", "Provo", "UT", "84601", "">>,
     <<"", "", "Year End", "T2", "Expenditure", "3/4/2020", "25.50", "", "",
       "", "Acme", "Signs", "", "", "", "", "", "">>}

RECURSIVE SeqsUpTo(_, _)
SeqsUpTo(S, k) ==
    IF k = 0 THEN {<<>>}
    ELSE SeqsUpTo(S, k - 1)
         \cup {Append(q, x) : q \in SeqsUpTo(S, k - 1), x \in S}

\* what requests.get can bring back: the sentinel, a report, an error page,
\* an error with an empty body; status 0 stands for requests.get raising
Responses ==
    {[status |-> 200, text |-> EMPTY_MSG]}
    \cup {[status |-> 200, text |-> <<fieldnames>> \o q] :
            q \in SeqsUpTo(Transactions, MaxCsvRows) \ {<<>>}}
    \cup {[status |-> 500,
           text |-> <<<<"<html>">>, <<"<body>Server Error</body>">>, <<"</html>">>>>],
          [status |-> 404, text |-> <<>>],
          [status |-> 0, text |-> <<>>]}

\* lines 469-471: the file is opened and its header written before anything
\* is fetched
OpenCsv ==
    /\ cmd = "get_disclosures" /\ dpc = "idle"
    /\ csvfile' = <<fieldnames>>
    /\ n' = 0
    /\ dpc' = "fetch"
    /\ UNCHANGED <<resp, rows>>
    /\ UNCHANGED <<runVars, pageVars, legendVars>>

\* line 472 and lines 63-71: the request; an exception of requests.get ends
\* the command, the with block closing the file as it is
FetchDisclosures ==
    /\ dpc = "fetch"
    /\ \E r \in Responses :
        /\ resp' = r
        /\ IF r.status = 0
           THEN dpc' = "crashed" /\ rows' = rows
           ELSE dpc' = "rows" /\ rows' = FetchedRows(r)
    /\ UNCHANGED <<csvfile, n>>
    /\ UNCHANGED <<runVars, pageVars, legendVars>>

\* lines 472-474: one row of the result
WriteRow ==
    /\ dpc = "rows" /\ rows # <<>>
    /\ n' = n + 1
    /\ csvfile' = Append(csvfile, WrittenLine(Head(rows)))
    /\ rows' = Tail(rows)
    /\ UNCHANGED <<dpc, resp>>
    /\ UNCHANGED <<runVars, pageVars, legendVars>>

\* line 475: print(f"wrote {n} to {filename}")
FinishCsv ==
    /\ dpc = "rows" /\ rows = <<>>
    /\ dpc' = "done"
    /\ UNCHANGED <<resp, rows, csvfile, n>>
    /\ UNCHANGED <<runVars, pageVars, legendVars>>

Next ==
    \/ GetRegistration
    \/ GetAllRegistrations
    \/ NextRow
    \/ FetchDetails
    \/ FetchMetadata
    \/ ResolveType
    \/ BeginFieldset
    \/ ReadLabel
    \/ Attach
    \/ ReturnEntity
    \/ ScrapeRaises
    \/ OpenFile
    \/ DumpJson
    \/ Sleep
    \/ OpenCsv
    \/ FetchDisclosures
    \/ WriteRow
    \/ FinishCsv

Spec == Init /\ [][Next]_vars

(* ---------- the legend classification of lines 284-306 on its own ------- *)
InitClassify ==
    /\ cmd = ""
    /\ row = 1
    /\ wpc = "main"
    /\ files = [r \in Rows |-> "absent"]
    /\ out = [r \in Rows |-> <<"", "">>]
    /\ written = EmptyDict
    /\ unslept = 0
    /\ PageIdle
    /\ DiscIdle
    /\ titleCore \in Titles
    /\ \E before \in Paddings, after \in Paddings :
        title = before \o titleCore \o after
    /\ titleClass = ""

ClassifyLegend ==
    /\ titleClass = ""
    /\ titleClass' = LegendBranch(title)
    /\ UNCHANGED <<titleCore, title>>
    /\ UNCHANGED <<runVars, pageVars, discVars>>

NextClassify == ClassifyLegend

SpecClassify == InitClassify /\ [][NextClassify]_vars

(* ------------------------------ claims --------------------------------- *)
Mapped(label) == label \in DOMAIN ENTITY_DATA_MAPPING

InPage == pc \in {"fieldsets", "labels", "returned", "error"}

People == entity["associated_people"]

\* C1: a label with no entry in ENTITY_DATA_MAPPING drops only that field:
\* right after such a label is read, wherever it stands on the page, the page
\* is still being extracted and data holds the fields of the mapped labels.
C1_UnmappedLabelDropsOnlyThatField ==
    (pc \in {"labels", "error"} /\ section # <<>>
        /\ ~Mapped(section[Len(section)].label))
    => (pc = "labels" /\ DOMAIN data = SectionFields(section))

C3_TypeResolvedFirst ==
    /\ pc = "start" => nsec = 0 /\ entity["type"] = ""
    /\ pc = "raised" =>
        /\ h1 \notin DOMAIN type_mapping
        /\ nsec = 0
        /\ entity = NewEntity(RowId(row), DetailsUrl(RowId(row)), RowId(row))
    /\ InPage =>
        /\ h1 \in DOMAIN type_mapping
        /\ entity["type"] = type_mapping[h1]
    /\ wpc = "sleep" => written["type"] = type_mapping[h1]

C3_Witness ==
    /\ pc = "returned"
    /\ nsec = 2
    /\ entity["type"] = "Lobbyist"
    /\ entity["address1"] # <<>>
    /\ Len(People) = 1

\* C4: every fieldset that takes the person branch appends exactly one Person,
\* so the Entity holds as many Persons as PersonLevel fieldsets were attached.
C4_OnePersonPerPersonSection ==
    InPage /\ pc # "error" => Len(People) = personSections

IsPrefixOf(p, t) == \E k \in 0 .. Len(t) : SubSeq(t, 1, k) = p

\* C5: the branch is a function of the stripped title alone: EntityLevel for
\* the titles of the entity-level set, PersonLevel for every title that
\* begins with "Information about" or "Personal Campaign Committee", Unknown
\* for all others; the first two cases never overlap.
C5_ClassificationIsTotal ==
    titleClass # "" =>
        /\ titleCore \in EntityLegends => titleClass = "EntityLevel"
        /\ (\E p \in PersonalPrefixes : IsPrefixOf(p, titleCore))
                => titleClass = "PersonLevel"
        /\ (/\ titleCore \notin EntityLegends
            /\ ~ \E p \in PersonalPrefixes : IsPrefixOf(p, titleCore))
                => titleClass = "Unknown"

C5_Witness ==
    /\ titleClass = "PersonLevel"
    /\ titleCore = <<"P","e","r","s","o","n","a","l"," ","C","a","m","p","a","i","g","n"," ","C","o","m","m","i","t","t","e","e"," ","M","e","m","b","e","r","s">>
    /\ title # titleCore

\* C6: every field an EntityLevel fieldset supplied is in the dict that
\* json.dump writes, with the value supplied last.
C6_SuppliedFieldsAreWritten ==
    wpc = "sleep" =>
        \A f \in DOMAIN supplied : f \in DOMAIN written /\ written[f] = supplied[f]

\* C7: in get_all_registrations a row whose page failed has no registration
\* file afterwards.
C7_FailedPageLeavesNoFile ==
    cmd = "get_all_registrations" =>
        \A r \in Rows : out[r][1] = "failed" => files[r] = "absent"

\* a fetch that failed: an error status, or a body that is no report
FetchFailed(r) ==
    \/ r.status # 200
    \/ r.text # EMPTY_MSG /\ (r.text = <<>> \/ Head(r.text) # fieldnames)

\* C8: a header-only file with zero rows comes only from the sentinel, and
\* a fetch that failed is never consumed as rows nor reported as written.
C8_NoDataDistinctFromFailure ==
    /\ (dpc = "done" /\ n = 0) => resp.text = EMPTY_MSG
    /\ (dpc \in {"rows", "done"}) => ~FetchFailed(resp)

\* C9: a failure raised while one fieldset is processed (a label without
\* tail text, no legend element, a Person that cannot be built) stays in that
\* fieldset: the page is not ended by it.
C9_SectionFailureConfined ==
    (InPage /\ exc \in {"AttributeError", "IndexError", "TypeError", "ValueError"})
    => pc # "error"

\* C10: between fieldsets and at the return, every canonical field holds the
\* value of the last label, in document order over the EntityLevel fieldsets,
\* that maps to it; a field no EntityLevel fieldset supplied has its default
\* (or, when the dataclass does not declare it, does not exist).
C10_LastWriteWins ==
    pc \in {"fieldsets", "returned"} =>
        \A l \in DOMAIN ENTITY_DATA_MAPPING :
            LET f == ENTITY_DATA_MAPPING[l] IN
            IF f \in DOMAIN supplied
            THEN f \in DOMAIN entity /\ entity[f] = supplied[f]
            ELSE IF f \in EntityFields THEN entity[f] = <<>>
                 ELSE f \notin DOMAIN entity

C10_Witness ==
    /\ pc = "fieldsets"
    /\ cls = "EntityLevel"
    /\ Len(section) = 2
    /\ section[1].label = "Street Address"
    /\ section[2].label = "Business Address"
    /\ entity["address1"] = <<"B","o","x"," ","2">>
    /\ personSections = 1

\* C11: in get_all_registrations, when the detail page of a row is about to
\* be requested, time.sleep has run since the last request made for an
\* earlier row, whether that row ended in a written file or in a failure; and
\* a row is only requested when its file does not exist.
C11_PacedBetweenEntities ==
    (cmd = "get_all_registrations" /\ wpc = "details")
    => (unslept = 0 /\ files[row] = "absent")
====
